---- MODULE Spec2Model ----
(***************************************************************************)
(* Connection registry and multi-backend facade of src/src/database.py:    *)
(* Connect, Disconnect, Query, Update, ListConnections over the mapping    *)
(* ctx.fastmcp.connections.                                                *)
(*                                                                         *)
(* Strings the code inspects (paths, SQL statements) are sequences of      *)
(* one-character strings, so that endswith, upper, strip, startswith and   *)
(* the FROM regular expression are computed as the code computes them.     *)
(***************************************************************************)
EXTENDS Integers, Sequences, FiniteSets, TLC

\* ------------------------------------------------------------------ bounds
MaxEngines == 2      \* engine objects create_engine can hand out in one run
MaxCallers == 2      \* tool invocations in flight in the concurrent specifications
MaxParams  == 3      \* longest parameter-set sequence passed to Update

Keys      == {"k1", "k2"}
Callers   == 1 .. MaxCallers
EngineIds == 1 .. MaxEngines
None      == 0       \* Python's None in the engine and access97_db fields

\* ----------------------------------------------------------------- strings
Lower == <<"a","b","c","d","e","f","g","h","i","j","k","l","m",
           "n","o","p","q","r","s","t","u","v","w","x","y","z">>
Upper == <<"A","B","C","D","E","F","G","H","I","J","K","L","M",
           "N","O","P","Q","R","S","T","U","V","W","X","Y","Z">>

\* str.upper() on one character
UpperChar(c) ==
    IF \E i \in 1 .. Len(Lower) : Lower[i] = c
    THEN Upper[CHOOSE i \in 1 .. Len(Lower) : Lower[i] = c]
    ELSE c

\* str.upper()
ToUpper(s) == [i \in 1 .. Len(s) |-> UpperChar(s[i])]

\* the characters str.strip() and the regular expression's \s treat as whitespace
IsSpace(c) == c \in {" ", "\t", "\n"}

RECURSIVE LStrip(_)
LStrip(s) == IF s # <<>> /\ IsSpace(Head(s)) THEN LStrip(Tail(s)) ELSE s

RECURSIVE RStrip(_)
RStrip(s) ==
    IF s # <<>> /\ IsSpace(s[Len(s)]) THEN RStrip(SubSeq(s, 1, Len(s) - 1)) ELSE s

\* str.strip()
Strip(s) == LStrip(RStrip(s))

\* str.startswith(prefix)
StartsWith(s, prefix) ==
    /\ Len(prefix) <= Len(s)
    /\ SubSeq(s, 1, Len(prefix)) = prefix

\* an endswith that ignores case
EndsWithCaseless(s, suffix) ==
    /\ Len(suffix) <= Len(s)
    /\ ToUpper(SubSeq(s, Len(s) - Len(suffix) + 1, Len(s))) = ToUpper(suffix)

\* str.endswith(suffix): case-sensitive comparison of the last characters
EndsWith(s, suffix) ==
    /\ Len(suffix) <= Len(s)
    /\ SubSeq(s, Len(s) - Len(suffix) + 1, Len(s)) = suffix

\* ------------------------------------------------------------------- paths
ExtDb      == <<".", "d", "b">>
ExtSqlite  == <<".", "s", "q", "l", "i", "t", "e">>
ExtSqlite3 == <<".", "s", "q", "l", "i", "t", "e", "3">>
ExtMdb     == <<".", "m", "d", "b">>
ExtAccdb   == <<".", "a", "c", "c", "d", "b">>

PathMemory  == <<>>                      \* ""  : transient in-memory store
PathDb      == <<"a">> \o ExtDb          \* "a.db"
PathSqlite  == <<"a">> \o ExtSqlite      \* "a.sqlite"
PathSqlite3 == <<"a">> \o ExtSqlite3     \* "a.sqlite3"
PathMdb     == <<"a">> \o ExtMdb         \* "a.mdb"
PathAccdb   == <<"a">> \o ExtAccdb       \* "a.accdb"
PathUpperDb == <<"a", ".", "D", "B">>    \* "a.DB"  : wrong case
PathTxt     == <<"a", ".", "t", "x", "t">>   \* "a.txt"
PathNoDot   == <<"a", "d", "b">>         \* "adb"   : the letters without the dot
PathMdbBak  == PathMdb \o <<".", "b">>   \* "a.mdb.b" : extension not at the end

Paths == {PathMemory, PathDb, PathSqlite, PathSqlite3, PathMdb, PathAccdb,
          PathUpperDb, PathTxt, PathNoDot, PathMdbBak}

\* database.py:119, 136: databasePath.endswith(".mdb") or databasePath.endswith(".accdb")
IsAccessPath(p) == EndsWith(p, ExtMdb) \/ EndsWith(p, ExtAccdb)

\* database.py:124
IsSqlitePath(p) ==
    EndsWith(p, ExtDb) \/ EndsWith(p, ExtSqlite) \/ EndsWith(p, ExtSqlite3)

\* database.py:115-128: the if/elif chain that builds connectionUrl; the else
\* branch raises "Unsupported database file extension"
SupportedPath(p) == p = PathMemory \/ IsAccessPath(p) \/ IsSqlitePath(p)

\* ---------------------------------------------------------- SQL statements
\* the backtick character (a TLA+ string cannot hold one)
Backtick  == "BACKTICK"
Sp        == <<" ">>
WSelect   == <<"S", "E", "L", "E", "C", "T">>
WFrom     == <<"F", "R", "O", "M">>
WInsert   == <<"I", "N", "S", "E", "R", "T">>
WInto     == <<"I", "N", "T", "O">>
WValues   == <<"V", "A", "L", "U", "E", "S">>
WCreate   == <<"C", "R", "E", "A", "T", "E">>
WTable    == <<"T", "A", "B", "L", "E">>
WIdUnique == <<"(", "i", "d", " ", "I", "N", "T", " ", "U", "N", "I", "Q", "U", "E", ")">>

SqlSelect1   == WSelect \o Sp \o <<"1">>                          \* SELECT 1
SqlSelectT   == WSelect \o Sp \o <<"*">> \o Sp \o WFrom \o Sp \o <<"T">>
                                                                   \* SELECT * FROM T
SqlSelectTq  == <<"s", "e", "l", "e", "c", "t">> \o Sp \o <<"*">> \o Sp
                \o <<"f", "r", "o", "m">> \o Sp \o <<Backtick, "T", Backtick>>
                                               \* select * from T, T in backticks
SqlInsertT   == WInsert \o Sp \o WInto \o Sp \o <<"T">> \o Sp \o <<"(", "i", "d", ")">>
                \o Sp \o WValues \o Sp \o <<"(", ":", "i", "d", ")">>
                                                  \* INSERT INTO T (id) VALUES (:id)
SqlCreateT   == WCreate \o Sp \o WTable \o Sp \o <<"T">> \o Sp \o WIdUnique
                                                  \* CREATE TABLE T (id INT UNIQUE)
SqlFromOnly  == WFrom \o Sp \o <<"T">>                             \* FROM T
SqlSelectTb  == WSelect \o Sp \o <<"*">> \o Sp \o WFrom \o Sp \o <<"[", "T", "]">>
                                                                   \* SELECT * FROM [T]

Statements == {SqlSelect1, SqlSelectT, SqlSelectTq, SqlSelectTb, SqlInsertT, SqlCreateT,
               SqlFromOnly}

\* the statements that select from table T (bare, in backticks, in brackets)
SelectsFromT == {SqlSelectT, SqlSelectTq, SqlSelectTb}

\* cell values; Null is the null of a row-record
Null == "null"
Vals == {"1", "2"}

Range(f) == {f[i] : i \in DOMAIN f}

\* the named-parameter mappings a caller passes: {} or {"id": v}
NoParams  == [c \in {} |-> Null]
ParamSets == [{"id"} -> Vals]
QueryParams == {NoParams} \cup ParamSets

\* a test that takes every mapping for empty
NeverTruthy(params) == FALSE

\* "if params:" on a mapping or a list
Truthy(params) == DOMAIN params # {}

\* the parameter-set sequences a caller passes to Update
ParamSeqs == UNION {[1 .. n -> ParamSets] : n \in 0 .. MaxParams}

\* the (statement, parameter-set sequence) pairs a caller passes to Update: every
\* statement with no parameter set, the INSERT with every sequence
UpdateInputs ==
    {<<sql, <<>>>> : sql \in Statements} \cup {<<SqlInsertT, ps>> : ps \in ParamSeqs}

\* -------------------------------------------------------- SQL-engine store
\* What one engine's database holds: whether table T exists, and T's rows (the id
\* column, UNIQUE) in insertion order.
EmptyStore == [hasT |-> FALSE, rows |-> <<>>]

Stores == {st \in [hasT : BOOLEAN, rows : UNION {[1 .. n -> Vals] : n \in 0 .. Cardinality(Vals)}] :
             /\ (~st.hasT => st.rows = <<>>)
             /\ \A i, j \in DOMAIN st.rows : st.rows[i] = st.rows[j] => i = j}

\* One element of a result list: a row-record (a mapping from column name to cell
\* value, both strings) or, where the code appends something else, a bare value.
EmptyRecord == [c \in {} |-> Null]
Row(rec)    == [isRecord |-> TRUE, record |-> rec, scalar |-> ""]
Item(v)     == [isRecord |-> FALSE, record |-> EmptyRecord, scalar |-> v]

RecordOf(col, v) == Row([c \in {col} |-> v])

\* an executemany that executes the statement for the first parameter set only
ExecuteFirstOnly(st, params, done) ==
    IF params = <<>> THEN [ok |-> TRUE, store |-> st, executions |-> done]
    ELSE IF ~st.hasT \/ Head(params)["id"] \in Range(st.rows)
         THEN [ok |-> FALSE, store |-> st, executions |-> done + 1]
         ELSE [ok |-> TRUE, store |-> [st EXCEPT !.rows = Append(@, Head(params)["id"])],
               executions |-> done + 1]

\* One execution of INSERT INTO T (id) VALUES (:id) per parameter set, in order,
\* on the transaction's working copy; stops at the first execution that fails
\* (T missing, or the UNIQUE constraint on id).
\* done counts the executions made, the failing one included.
RECURSIVE ExecuteMany(_, _, _)
ExecuteMany(st, params, done) ==
    IF params = <<>> THEN [ok |-> TRUE, store |-> st, executions |-> done]
    ELSE IF ~st.hasT \/ Head(params)["id"] \in Range(st.rows)
         THEN [ok |-> FALSE, store |-> st, executions |-> done + 1]
         ELSE ExecuteMany([st EXCEPT !.rows = Append(@, Head(params)["id"])],
                          Tail(params), done + 1)

\* conn.execute(sa.text(sql), parameters=params) (database.py:332) on the
\* transaction's working copy st.  An empty parameter list executes the statement
\* once with no parameters.
Execute(st, sql, params) ==
    IF sql = SqlInsertT /\ params # <<>>
    THEN ExecuteMany(st, params, 0)
    ELSE [ok |-> IF sql = SqlCreateT THEN ~st.hasT /\ params = <<>>
                 ELSE IF sql = SqlInsertT THEN FALSE       \* :id has no value
                 ELSE IF sql = SqlSelect1 THEN TRUE
                 ELSE IF sql \in SelectsFromT THEN st.hasT
                 ELSE FALSE,                               \* syntax error
          store |-> IF sql = SqlCreateT /\ ~st.hasT /\ params = <<>>
                    THEN [st EXCEPT !.hasT = TRUE] ELSE st,
          executions |-> IF sql = SqlInsertT THEN 0 ELSE 1]

\* a transaction that keeps the executions made before a failure
TransactionNoRollback(st, sql, params) ==
    Execute(st, sql, params)

\* "with engine.begin() as conn: conn.execute(...)" (database.py:331-333): begin,
\* execute, commit when the block ends normally, roll back when it raises.
Transaction(st, sql, params) ==
    LET r == Execute(st, sql, params)
    IN  IF r.ok THEN r ELSE [r EXCEPT !.store = st]

\* pd.read_sql_query(sa.text(sql), conn, params=params).to_dict("records")
\* (database.py:303-305) on an SQL engine.
ReadSqlQuery(st, sql, params) ==
    IF sql = SqlSelect1
    THEN [ok |-> TRUE, rows |-> <<RecordOf("1", "1")>>]
    ELSE IF sql \in SelectsFromT /\ st.hasT /\ ~Truthy(params)
    THEN [ok |-> TRUE, rows |-> [i \in DOMAIN st.rows |-> RecordOf("id", st.rows[i])]]
    ELSE [ok |-> FALSE, rows |-> <<>>]

\* ------------------------------------------------------ read-only parser
\* A parsed table is column-oriented: the columns in the mapping's order, each
\* with its name and its ordered values.
TableAB    == << [name |-> "A", vals |-> <<"1", "2">>], [name |-> "B", vals |-> <<"10">>] >>
TableA     == << [name |-> "A", vals |-> <<"1">>] >>
TableNone  == << >>

\* The files AccessParser can open; access97_db = i stands for the parser object
\* over ParsedFiles[i], whose only table is T.
ParsedFiles == <<TableAB, TableA, TableNone>>
ParserIds   == 1 .. Len(ParsedFiles)

\* The mapping type parse_table returns is the library's choice: a plain dict
\* raises KeyError on table[0], a defaultdict(list) answers [] and gains the key 0.
MappingKinds == {"dict", "defaultdict"}

ColumnNames(table) == [i \in DOMAIN table |-> Item(table[i].name)]

\* database.py:269-295: what the code builds from the mapping parse_table returned.
\*   272  hasattr(table, 'columns') is false for a mapping;
\*   274  len(table) > 0: line 276 evaluates table[0];
\*   279  an empty mapping takes the catalog branch;
\*   283  iterating a mapping yields its keys, and a key (a str, or the int 0 the
\*        defaultdict gained) has no _asdict, no __dict__, is no dict and no tuple,
\*        so line 293 appends the key itself.
ConvertTable(table, kind) ==
    IF Len(table) > 0
    THEN IF kind = "dict"
         THEN [ok |-> FALSE, rows |-> <<>>]
         ELSE [ok |-> TRUE, rows |-> Append(ColumnNames(table), Item("0"))]
    ELSE [ok |-> TRUE, rows |-> <<>>]

\* re.search(r"FROM\s+[bt]?([^[bt]\s(,;]+)[bt]?", sql, re.IGNORECASE), [bt] being
\* the backtick (database.py:256).
NameChar(c) == ~IsSpace(c) /\ c \notin {Backtick, "(", ",", ";"}

\* first index at or after i that is past the run of whitespace starting at i
SpaceEnd(s, i) ==
    CHOOSE j \in i .. Len(s) + 1 :
        /\ \A m \in i .. j - 1 : IsSpace(s[m])
        /\ (j = Len(s) + 1 \/ ~IsSpace(s[j]))

\* first index at or after i that is past the run of name characters starting at i
NameEnd(s, i) ==
    CHOOSE j \in i .. Len(s) + 1 :
        /\ \A m \in i .. j - 1 : NameChar(s[m])
        /\ (j = Len(s) + 1 \/ ~NameChar(s[j]))

\* the match attempted with FROM at index i: group(1), or <<>> when it fails
MatchAt(s, i) ==
    IF i + 3 <= Len(s) /\ ToUpper(SubSeq(s, i, i + 3)) = WFrom
    THEN LET w == SpaceEnd(s, i + 4)
             b == IF w <= Len(s) /\ s[w] = Backtick THEN w + 1 ELSE w
             e == NameEnd(s, b)
         IN  IF w > i + 4 /\ e > b THEN SubSeq(s, b, e - 1) ELSE <<>>
    ELSE <<>>

\* match.group(1) of the leftmost match; <<>> when re.search returns None
ExtractTable(s) ==
    LET hits == {i \in 1 .. Len(s) : MatchAt(s, i) # <<>>}
    IN  IF hits = {} THEN <<>>
        ELSE MatchAt(s, CHOOSE i \in hits : \A j \in hits : i <= j)

\* database.py:245-248: sql.upper().strip().startswith("SELECT")
IsSelect(sql) == StartsWith(Strip(ToUpper(sql)), WSelect)

\* ------------------------------------------------------------ DBConnection
\* database.py:22-30.  A dataclass turns the annotated class attributes into
\* fields and __init__ parameters: key, engine, path, is_access97.  Line 30,
\* "access97_db = None", carries no annotation: it is a plain class attribute and
\* no parameter of __init__.
DataclassFields == {"key", "engine", "path", "is_access97"}

\* the keyword arguments of the constructor call at database.py:174-180
ConstructorKeywords == {"key", "engine", "path", "is_access97", "access97_db"}

Handle(key, engine, path, is_access97, access97_db) ==
    [key |-> key, engine |-> engine, path |-> path,
     is_access97 |-> is_access97, access97_db |-> access97_db]

\* a dataclass whose five attributes are all fields
DBConnectionAllFields(key, engine, path, is_access97, access97_db) ==
    [ok |-> TRUE, handle |-> Handle(key, engine, path, is_access97, access97_db)]

\* DBConnection(key=..., engine=..., path=..., is_access97=..., access97_db=...):
\* __init__ raises TypeError for a keyword that is not one of its parameters.
DBConnection(key, engine, path, is_access97, access97_db) ==
    [ok     |-> ConstructorKeywords \subseteq DataclassFields,
     handle |-> Handle(key, engine, path, is_access97, access97_db)]

\* what a failed lookup leaves in the caller's hands
NoHandle == Handle("", None, PathMemory, FALSE, None)

\* a lookup that answers a default for a missing key instead of raising
GetConnectionOrDefault(conns, key) ==
    [ok |-> TRUE, conn |-> IF key \in DOMAIN conns THEN conns[key] ELSE NoHandle]

\* database.py:34-40: raises "Not connected ..." when the key is absent.
GetConnection(conns, key) ==
    IF key \in DOMAIN conns THEN [ok |-> TRUE, conn |-> conns[key]]
                            ELSE [ok |-> FALSE, conn |-> NoHandle]

\* database.py:43-45: GetConnection(ctx, key).engine
GetEngine(conns, key) ==
    [ok |-> GetConnection(conns, key).ok, engine |-> GetConnection(conns, key).conn.engine]

\* ------------------------------------------------------------------- state
VARIABLES
    connections,   \* ctx.fastmcp.connections: key -> DBConnection
    engines,       \* every engine object: unused | live | disposed, and its store
    pc,            \* per caller: where its tool call stands
    local,         \* per caller: the call's arguments and local variables
    ret            \* per caller: what its last call returned or raised

vars == <<connections, engines, pc, local, ret>>

\* tried: the connection methods Connect has attempted so far, in order
NoLocal ==
    [key |-> "", path |-> PathMemory, readNotes |-> FALSE, engine |-> None,
     is_access97 |-> FALSE, access97_db |-> None, sql |-> <<>>, params |-> <<>>,
     tried |-> <<>>]

\* What a call returns or raises.  For Connect, tried is the connection methods
\* it attempted and reasons the attempts whose error text its message carries;
\* for a Query on a parser handle, table is the name handed to parse_table.
Result(op, key, status, detail, rows) ==
    [op |-> op, key |-> key, status |-> status, detail |-> detail, rows |-> rows,
     listing |-> {}, executions |-> 0, tried |-> <<>>, reasons |-> {}, table |-> <<>>]

\* database.py:192-193: "Error connecting to database: " + str(e), raised by a
\* Connect that attempted the methods tried; str(e) carries the error text of
\* the attempts in reasons.
ConnectionFailed(key, detail, tried, reasons) ==
    [Result("Connect", key, "ConnectionFailed", detail, <<>>) EXCEPT
        !.tried = tried, !.reasons = reasons]

\* database.py:190: the confirmation message of a Connect that attempted tried
Connected(key, detail, tried) ==
    [Result("Connect", key, "ok", detail, <<>>) EXCEPT !.tried = tried]

NoResult == Result("none", "", "none", "", <<>>)

\* the call of caller t ends: it returns or raises
Return(t, r) ==
    /\ pc' = [pc EXCEPT ![t] = "idle"]
    /\ local' = [local EXCEPT ![t] = NoLocal]
    /\ ret' = [ret EXCEPT ![t] = r]

\* the call of caller t goes on at label l with the locals loc; while it runs
\* the caller holds no result
Goto(t, l, loc) ==
    /\ pc' = [pc EXCEPT ![t] = l]
    /\ local' = [local EXCEPT ![t] = loc]
    /\ ret' = [ret EXCEPT ![t] = NoResult]

UnusedEngines == {e \in EngineIds : engines[e].state = "unused"}

\* the engine object the next create_engine call returns
NewEngine == CHOOSE e \in UnusedEngines : \A f \in UnusedEngines : e <= f

\* engine objects the registry owns
OwnedEngines == {connections[k].engine : k \in DOMAIN connections} \ {None}

\* the process starts with an empty registry and no engine
Init ==
    /\ connections = [k \in {} |-> NoLocal]
    /\ engines = [e \in EngineIds |-> [state |-> "unused", store |-> EmptyStore]]
    /\ pc = [t \in Callers |-> "idle"]
    /\ local = [t \in Callers |-> NoLocal]
    /\ ret = [t \in Callers |-> NoResult]

\* ----------------------------------------------------------------- Connect
\* an existence check that never finds the key
ExistingNever(conns, key) == FALSE

\* database.py:107-109: existing = connections.get(key); "if existing:".  A
\* DBConnection defines neither __bool__ nor __len__, so the test is true exactly
\* when the key is present.
Existing(conns, key) == key \in DOMAIN conns

\* database.py:106-128: the existence check and the extension dispatch.
ConnectCall(t, key, databasePath, readNotes) ==
    /\ pc[t] = "idle"
    /\ IF Existing(connections, key)
       THEN /\ Return(t, Result("Connect", key, "AlreadyExists", "", <<>>))
            /\ UNCHANGED <<connections, engines>>
       ELSE IF ~SupportedPath(databasePath)
       THEN /\ Return(t, Result("Connect", key, "UnsupportedExtension", "", <<>>))
            /\ UNCHANGED <<connections, engines>>
       ELSE /\ Cardinality(UnusedEngines) > Cardinality({u \in Callers : pc[u] = "c_open"})
            /\ Goto(t, "c_open", [NoLocal EXCEPT !.key = key, !.path = databasePath,
                                                 !.readNotes = readNotes])
            /\ UNCHANGED <<connections, engines>>

\* What a database file holds when an engine opens it (two cases: no table, T
\* with one row); the in-memory store starts empty.
FileStores == {EmptyStore, [hasT |-> TRUE, rows |-> <<"1">>]}

OpenStores(path) == IF path = PathMemory THEN {EmptyStore} ELSE FileStores

\* How sa.create_engine + engine.connect() + SELECT 1 can end: "ok"; the
\* connection cannot be opened ("open"); the connection opens and SELECT 1 fails
\* ("probe").  legacy: the error text holds "cannot open a database created with
\* a previous version" (database.py:147).
Attempts == {[stage |-> "ok", legacy |-> FALSE]}
            \cup [stage : {"open", "probe"}, legacy : BOOLEAN]

\* the connection method of the one driver attempt Connect makes for a path:
\* the ACE driver for an Access file (database.py:139), the SQLite engine
\* otherwise (database.py:167)
DriverOf(path) == IF IsAccessPath(path) THEN "modern" ELSE "sqlite"

\* database.py:130-171 up to the driver attempt's outcome.  The engine object of
\* a failed attempt is not disposed: after a failed probe its pool still holds
\* the opened connection.  An Access path whose error text names a previous
\* version goes on to the parser (lines 146-148); every other failure is raised
\* again (line 164) and ends the call at line 193 with the driver's error text.
ConnectOpen(t, attempt, st) ==
    /\ pc[t] = "c_open"
    /\ st \in OpenStores(local[t].path)
    /\ LET e == NewEngine
           opened == [engines EXCEPT ![e] = [state |-> "live", store |-> st]]
           tried == Append(local[t].tried, DriverOf(local[t].path))
       IN
       IF attempt.stage = "ok"
       THEN /\ ~attempt.legacy
            /\ engines' = opened
            /\ Goto(t, "c_store", [local[t] EXCEPT !.engine = e, !.tried = tried])
            /\ UNCHANGED connections
       ELSE /\ st = CHOOSE s \in OpenStores(local[t].path) : TRUE
            /\ engines' = IF attempt.stage = "probe" THEN opened ELSE engines
            /\ UNCHANGED connections
            /\ IF IsAccessPath(local[t].path) /\ attempt.legacy
               THEN Goto(t, "c_parser", [local[t] EXCEPT !.tried = tried])
               ELSE /\ ~attempt.legacy
                    /\ Return(t, ConnectionFailed(local[t].key, attempt.stage, tried,
                                                  {DriverOf(local[t].path)}))

\* How AccessParser(databasePath) can end: the file parsed, the library is not
\* installed ("ImportError"), any other exception ("error").
ParserOutcomes == {"parsed", "ImportError", "error"}

\* database.py:149-161: the access-parser fallback.  A failure raises a
\* FastMCPError whose text is built from the parser's error alone (lines 156-161:
\* ace_error is not in it), and line 193 wraps that text.
ConnectParser(t, outcome, db) ==
    /\ pc[t] = "c_parser"
    /\ UNCHANGED <<connections, engines>>
    /\ LET tried == Append(local[t].tried, "parser") IN
       IF outcome = "parsed"
       THEN Goto(t, "c_store", [local[t] EXCEPT !.access97_db = db,
                                                !.is_access97 = TRUE,
                                                !.engine = None,
                                                !.tried = tried])
       ELSE /\ db = CHOOSE d \in ParserIds : TRUE
            /\ Return(t, ConnectionFailed(local[t].key, outcome, tried, {"parser"}))

\* How ReadNotes(databasePath) can end: the text, a FastMCPError, another exception.
NotesOutcomes == {"text", "FastMCPError", "exception"}

\* database.py:173-193: build the DBConnection, store it under the key, read the
\* notes, return the message; any exception becomes "Error connecting to
\* database".
ConnectStore(t, notes) ==
    /\ pc[t] = "c_store"
    /\ UNCHANGED engines
    /\ LET l == local[t]
           made == DBConnection(l.key, l.engine, l.path, l.is_access97, l.access97_db)
       IN
       IF ~made.ok
       THEN /\ notes = "text"
            /\ UNCHANGED connections
            /\ Return(t, ConnectionFailed(l.key, "TypeError", l.tried, {}))
       ELSE /\ connections' = [k \in DOMAIN connections \cup {l.key} |->
                                  IF k = l.key THEN made.handle ELSE connections[k]]
            /\ IF ~l.readNotes
               THEN /\ notes = "text"
                    /\ Return(t, Connected(l.key, "", l.tried))
               ELSE IF notes = "exception"
               THEN Return(t, ConnectionFailed(l.key, "notes", l.tried, {}))
               ELSE Return(t, Connected(l.key,
                                        IF notes = "text" THEN "Notes"
                                                          ELSE "Error reading notes",
                                        l.tried))

\* -------------------------------------------------------------- Disconnect
\* database.py:199-202: "if key not in connections: raise".
DisconnectCall(t, key) ==
    /\ pc[t] = "idle"
    /\ UNCHANGED <<connections, engines>>
    /\ IF key \notin DOMAIN connections
       THEN Return(t, Result("Disconnect", key, "NotConnected", "", <<>>))
       ELSE Goto(t, "d_dispose", [NoLocal EXCEPT !.key = key])

\* engine.dispose(): the pool's connections are closed; an in-memory database
\* goes with them, a file keeps its content.
Dispose(eng, path) ==
    [state |-> "disposed",
     store |-> IF path = PathMemory THEN EmptyStore ELSE eng.store]

\* database.py:205: connections[key].engine.dispose().  The subscript raises
\* KeyError when the key has gone; a handle whose engine is None raises
\* AttributeError ('NoneType' object has no attribute 'dispose').  Neither is
\* caught: the call ends there and line 206 is not reached.
DisconnectDispose(t) ==
    /\ pc[t] = "d_dispose"
    /\ UNCHANGED connections
    /\ LET key == local[t].key IN
       IF key \notin DOMAIN connections
       THEN /\ UNCHANGED engines
            /\ Return(t, Result("Disconnect", key, "KeyError", "", <<>>))
       ELSE IF connections[key].engine = None
       THEN /\ UNCHANGED engines
            /\ Return(t, Result("Disconnect", key, "AttributeError", "", <<>>))
       ELSE /\ engines' = [engines EXCEPT ![connections[key].engine] =
                              Dispose(@, connections[key].path)]
            /\ Goto(t, "d_del", local[t])

\* database.py:206-207: del connections[key]; return the confirmation.
DisconnectDel(t) ==
    /\ pc[t] = "d_del"
    /\ UNCHANGED engines
    /\ LET key == local[t].key IN
       IF key \notin DOMAIN connections
       THEN /\ UNCHANGED connections
            /\ Return(t, Result("Disconnect", key, "KeyError", "", <<>>))
       ELSE /\ connections' = [k \in DOMAIN connections \ {key} |-> connections[k]]
            /\ Return(t, Result("Disconnect", key, "ok", "", <<>>))

\* ------------------------------------------------------------------- Query
\* What parse_table can do for a name that is no table of the file: raise, or
\* log and return None (then lines 272-282 find no rows and the result is []).
MissingTable == {"raise", "None"}

\* database.py:242-298: the Access 97 branch of Query on the parser object db.
\* kind is the mapping type parse_table returns, missing what it does for an
\* unknown table.
QueryAccess97(key, db, sql, params, kind, missing) ==
    IF Truthy(params)
    THEN Result("Query", key, "ParametersNotSupported", "", <<>>)
    ELSE IF ~IsSelect(sql)
    THEN Result("Query", key, "UnsupportedQuery", "not SELECT", <<>>)
    ELSE LET table_name == ExtractTable(sql) IN
    IF table_name = <<>>
    THEN Result("Query", key, "UnsupportedQuery", "no table", <<>>)
    ELSE [IF table_name # <<"T">>
          THEN IF missing = "raise"
               THEN Result("Query", key, "QueryError", "parse_table", <<>>)
               ELSE Result("Query", key, "ok", "", <<>>)
          ELSE LET r == ConvertTable(ParsedFiles[db], kind) IN
               IF r.ok THEN Result("Query", key, "ok", "", r.rows)
                       ELSE Result("Query", key, "QueryError", "KeyError", <<>>)
         EXCEPT !.table = table_name]

\* database.py:232-298: GetConnection (lines 34-40), then the Access 97 branch;
\* a handle with is_access97 false goes on to line 303.
QueryCall(t, key, sql, params, kind, missing) ==
    /\ pc[t] = "idle"
    /\ UNCHANGED <<connections, engines>>
    /\ LET conn_info == GetConnection(connections, key) IN
       IF ~conn_info.ok
       THEN /\ kind = "dict" /\ missing = "raise"
            /\ Return(t, Result("Query", key, "NotConnected", "", <<>>))
       ELSE IF conn_info.conn.is_access97
       THEN Return(t, QueryAccess97(key, conn_info.conn.access97_db, sql, params,
                                    kind, missing))
       ELSE /\ kind = "dict" /\ missing = "raise"
            /\ Goto(t, "q_exec", [NoLocal EXCEPT !.key = key, !.sql = sql,
                                                 !.params = params,
                                                 !.engine = conn_info.conn.engine])

\* A disposed engine that is used again opens a new pool.
Reopen(eng) == [eng EXCEPT !.state = "live"]

\* database.py:303-305: GetEngine looks the key up again (lines 43-45), then
\* "with engine.begin() as conn: pd.read_sql_query(...)".
QueryExec(t) ==
    /\ pc[t] = "q_exec"
    /\ UNCHANGED connections
    /\ LET key == local[t].key
           got == GetEngine(connections, key)
       IN
       IF ~got.ok
       THEN /\ UNCHANGED engines
            /\ Return(t, Result("Query", key, "NotConnected", "", <<>>))
       ELSE IF got.engine = None
       THEN /\ UNCHANGED engines
            /\ Return(t, Result("Query", key, "AttributeError", "", <<>>))
       ELSE LET e == got.engine
                r == ReadSqlQuery(engines[e].store, local[t].sql, local[t].params)
            IN  /\ engines' = [engines EXCEPT ![e] = Reopen(@)]
                /\ Return(t, Result("Query", key, IF r.ok THEN "ok" ELSE "QueryError",
                                    "", r.rows))

\* ------------------------------------------------------------------ Update
\* database.py:319-327: GetConnection, then the read-only check.
UpdateCall(t, key, sql, params) ==
    /\ pc[t] = "idle"
    /\ UNCHANGED <<connections, engines>>
    /\ LET conn_info == GetConnection(connections, key) IN
       IF ~conn_info.ok
       THEN Return(t, Result("Update", key, "NotConnected", "", <<>>))
       ELSE IF conn_info.conn.is_access97
       THEN Return(t, Result("Update", key, "ReadOnlyViolation", "", <<>>))
       ELSE Goto(t, "u_exec", [NoLocal EXCEPT !.key = key, !.sql = sql,
                                              !.params = params,
                                              !.engine = conn_info.conn.engine])

\* database.py:329-333: GetEngine looks the key up again, then the transaction.
UpdateExec(t) ==
    /\ pc[t] = "u_exec"
    /\ UNCHANGED connections
    /\ LET key == local[t].key
           got == GetEngine(connections, key)
       IN
       IF ~got.ok
       THEN /\ UNCHANGED engines
            /\ Return(t, Result("Update", key, "NotConnected", "", <<>>))
       ELSE IF got.engine = None
       THEN /\ UNCHANGED engines
            /\ Return(t, Result("Update", key, "AttributeError", "", <<>>))
       ELSE LET e == got.engine
                r == Transaction(engines[e].store, local[t].sql, local[t].params)
            IN  /\ engines' = [engines EXCEPT ![e] = [state |-> "live", store |-> r.store]]
                /\ Return(t, [Result("Update", key, IF r.ok THEN "ok" ELSE "QueryError",
                                     "", <<>>) EXCEPT !.executions = r.executions])

\* --------------------------------------------------------- ListConnections
\* a listing that takes the entries out of the registry as it reads them
ListConnectionsDraining(t) ==
    /\ pc[t] = "idle"
    /\ connections' = [k \in {} |-> NoHandle]
    /\ UNCHANGED engines
    /\ Return(t, [Result("ListConnections", "", "ok", "", <<>>) EXCEPT
                    !.listing = {[key |-> connections[k].key, path |-> connections[k].path] :
                                    k \in DOMAIN connections}])

\* database.py:48-52: key and path of every entry.
ListConnections(t) ==
    /\ pc[t] = "idle"
    /\ UNCHANGED <<connections, engines>>
    /\ Return(t, [Result("ListConnections", "", "ok", "", <<>>) EXCEPT
                    !.listing = {[key |-> connections[k].key, path |-> connections[k].path] :
                                    k \in DOMAIN connections}])

\* ---------------------------------------------------------- specifications
\* The steps of Connect, with the paths and readNotes flags callers pass.
ConnectSteps(t, paths, flags) ==
    \/ \E key \in Keys, databasePath \in paths, readNotes \in flags :
           ConnectCall(t, key, databasePath, readNotes)
    \/ \E attempt \in Attempts, st \in FileStores : ConnectOpen(t, attempt, st)
    \/ \E outcome \in ParserOutcomes, db \in ParserIds : ConnectParser(t, outcome, db)
    \/ \E notes \in NotesOutcomes : ConnectStore(t, notes)

\* The steps of Disconnect.
DisconnectSteps(t) ==
    \/ \E key \in Keys : DisconnectCall(t, key)
    \/ DisconnectDispose(t)
    \/ DisconnectDel(t)

\* The steps of Query, with the statements and parameter mappings callers pass.
QuerySteps(t, statements, mappings) ==
    \/ \E key \in Keys, sql \in statements, params \in mappings,
          kind \in MappingKinds, missing \in MissingTable :
           QueryCall(t, key, sql, params, kind, missing)
    \/ QueryExec(t)

\* The steps of Update.
UpdateSteps(t) ==
    \/ \E key \in Keys, in \in UpdateInputs : UpdateCall(t, key, in[1], in[2])
    \/ UpdateExec(t)

\* One caller, starting from the empty registry: the steps of Connect and the
\* first step of every other operation (all a caller can do while the registry
\* is empty).
Next ==
    \/ ConnectSteps(1, Paths, BOOLEAN)
    \/ \E key \in Keys : DisconnectCall(1, key)
    \/ \E key \in Keys, sql \in Statements, params \in QueryParams,
          kind \in MappingKinds, missing \in MissingTable :
           QueryCall(1, key, sql, params, kind, missing)
    \/ \E key \in Keys, in \in UpdateInputs : UpdateCall(1, key, in[1], in[2])
    \/ ListConnections(1)

Spec == Init /\ [][Next]_vars

\* Connect calls of several callers, their steps interleaved, starting from the
\* empty registry.
ConcPaths == {PathMemory, PathMdb, PathTxt}

NextConc == \E t \in Callers : ConnectSteps(t, ConcPaths, {FALSE})

SpecConc == Init /\ [][NextConc]_vars

\* A registry that holds handles as database.py:174-180 means to build them: an
\* SQL-engine handle owns a live engine, a parser handle has engine None and a
\* parser object.  Key k1 owns engine 1 and key k2 engine 2.
EngineOf(k) == IF k = "k1" THEN 1 ELSE 2

HandlePaths == {PathMemory, PathDb, PathMdb}

EngineHandles(k) ==
    {Handle(k, EngineOf(k), p, FALSE, None) : p \in HandlePaths}

ParserHandles(k) ==
    {Handle(k, None, PathMdb, TRUE, db) : db \in ParserIds}

Registries ==
    UNION {[D -> UNION {EngineHandles(k) \cup ParserHandles(k) : k \in Keys}] :
              D \in SUBSET Keys}

InitHandles ==
    /\ connections \in {r \in Registries : \A k \in DOMAIN r : r[k].key = k}
    /\ engines \in [EngineIds -> [state : {"unused", "live"}, store : FileStores]]
    /\ \A e \in EngineIds :
         IF \E k \in DOMAIN connections : connections[k].engine = e
         THEN /\ engines[e].state = "live"
              /\ \A k \in DOMAIN connections :
                    connections[k].engine = e =>
                        engines[e].store \in OpenStores(connections[k].path)
         ELSE engines[e] = [state |-> "unused", store |-> EmptyStore]
    /\ pc = [t \in Callers |-> "idle"]
    /\ local = [t \in Callers |-> NoLocal]
    /\ ret = [t \in Callers |-> NoResult]

\* One caller, every operation, starting from any such registry.
NextHandles ==
    \/ ConnectSteps(1, Paths, BOOLEAN)
    \/ DisconnectSteps(1)
    \/ QuerySteps(1, Statements, QueryParams)
    \/ UpdateSteps(1)
    \/ ListConnections(1)

SpecHandles == InitHandles /\ [][NextHandles]_vars

\* Disconnect and Query calls of several callers, their steps interleaved.
ConcStatements == {SqlSelect1, SqlSelectT}

NextHandlesConc ==
    \E t \in Callers : DisconnectSteps(t) \/ QuerySteps(t, ConcStatements, {NoParams})

SpecHandlesConc == InitHandles /\ [][NextHandlesConc]_vars

\* ------------------------------------------------------------------ claims
\* The registry and the engines are left as they were.
Untouched == UNCHANGED <<connections, engines>>

\* Caller t's call ends in this step.
Ends(t) == pc'[t] = "idle" /\ (pc[t] # "idle" \/ ret'[t] # ret[t])

\* the label a call of op goes on at when its first step does not end it
FirstLabel(op) ==
    CASE op = "Connect"    -> "c_open"
      [] op = "Query"      -> "q_exec"
      [] op = "Update"     -> "u_exec"
      [] op = "Disconnect" -> "d_dispose"

\* This step is the first step of a call of op on key k by caller t: the call
\* ends at once with a result for (op, k), or goes on with k in its locals.
Calls(t, op, k) ==
    /\ pc[t] = "idle"
    /\ \/ Ends(t) /\ ret'[t].op = op /\ ret'[t].key = k
       \/ pc'[t] = FirstLabel(op) /\ local'[t].key = k

\* C1: from a registry with no entry for k, a Connect(k, "") whose in-memory
\* backend opened and passed the SELECT 1 probe succeeds and leaves a handle
\* under k; and a Query on a key with no handle fails NotConnected.
C1_Lifecycle ==
    [][/\ (pc[1] = "c_store" /\ local[1].path = PathMemory /\ Ends(1))
          => /\ ret'[1].status = "ok"
             /\ local[1].key \in DOMAIN connections'
             /\ connections'[local[1].key].path = PathMemory
       /\ \A k \in Keys \ DOMAIN connections :
            Calls(1, "Query", k) => ret'[1].status = "NotConnected"]_vars

\* C2: a Connect on a key that has a handle, whatever the path, fails
\* AlreadyExists at once, opens no backend and leaves the registry as it was.
C2_AlreadyExists ==
    [][\A k \in DOMAIN connections :
         Calls(1, "Connect", k)
         => /\ pc'[1] = "idle"
            /\ ret'[1] = Result("Connect", k, "AlreadyExists", "", <<>>)
            /\ Untouched]_vars

C2_Witness ==
    /\ ret[1].op = "Connect" /\ ret[1].status = "AlreadyExists"
    /\ ret[1].key \in DOMAIN connections
    /\ pc[1] = "idle"

\* the non-empty paths of Paths that end in none of .db .sqlite .sqlite3 .mdb .accdb
C3_Unsupported == {PathUpperDb, PathTxt, PathNoDot, PathMdbBak}

\* C3: a Connect on an unused key with a non-empty path of an unsupported
\* extension fails UnsupportedExtension at once, attempts no backend open and
\* leaves the registry as it was.
C3_UnsupportedExtension ==
    [][\A k \in Keys \ DOMAIN connections, p \in C3_Unsupported :
         (Calls(1, "Connect", k) /\ \E rn \in BOOLEAN : ConnectCall(1, k, p, rn))
         => /\ pc'[1] = "idle"
            /\ ret'[1] = Result("Connect", k, "UnsupportedExtension", "", <<>>)
            /\ Untouched]_vars

C3_Witness ==
    /\ ret[1].op = "Connect" /\ ret[1].status = "UnsupportedExtension"
    /\ ret[1].key \notin DOMAIN connections
    /\ DOMAIN connections # {}

C5_NotConnected ==
    [][\A k \in Keys \ DOMAIN connections, op \in {"Query", "Update", "Disconnect"} :
         Calls(1, op, k)
         => /\ pc'[1] = "idle"
            /\ ret'[1] = Result(op, k, "NotConnected", "", <<>>)
            /\ Untouched]_vars

C5_Witness ==
    /\ ret[1].op = "Query" /\ ret[1].status = "NotConnected"
    /\ ret[1].key \notin DOMAIN connections
    /\ DOMAIN connections # {}

\* C6: of two Connect calls on one unused key that run concurrently, exactly one
\* succeeds and the other fails AlreadyExists.  AlreadyExists is raised by the
\* existence check alone, so two calls on one key are never both past that check
\* with their backends established.
C6_ExactlyOneSucceeds ==
    \A t, u \in Callers :
        (t # u /\ pc[t] = "c_store" /\ pc[u] = "c_store")
        => local[t].key # local[u].key

C8_SomeEntryFails(st, params) ==
    \/ ~st.hasT
    \/ \E i \in DOMAIN params :
          \/ params[i]["id"] \in Range(st.rows)
          \/ \E j \in 1 .. i - 1 : params[j]["id"] = params[i]["id"]

\* C8: when the execution for any entry of the parameter-set sequence fails,
\* Update fails; and a failed Update leaves every store as it was before the call.
C8_AllOrNothing ==
    [][(pc[1] = "u_exec" /\ Ends(1))
       => /\ ( /\ local[1].sql = SqlInsertT /\ local[1].params # <<>>
               /\ C8_SomeEntryFails(engines[local[1].engine].store, local[1].params) )
             => ret'[1].status = "QueryError"
          /\ ret'[1].status # "ok"
             => \A e \in EngineIds : engines'[e].store = engines[e].store]_vars

\* a failed Update whose second execution failed after the first had inserted
C8_Witness ==
    /\ ret[1].op = "Update" /\ ret[1].status = "QueryError" /\ ret[1].executions = 2
    /\ ret[1].key \in DOMAIN connections
    /\ engines[connections[ret[1].key].engine].store = [hasT |-> TRUE, rows |-> <<>>]

\* C9: on a parser handle, Update fails ReadOnlyViolation and a Query with a
\* non-empty parameter mapping fails ParametersNotSupported, both at once and
\* with the registry and the engines left as they were.
C9_ReadOnlyParser ==
    [][\A k \in DOMAIN connections :
         connections[k].is_access97 =>
           /\ Calls(1, "Update", k)
              => /\ pc'[1] = "idle"
                 /\ ret'[1] = Result("Update", k, "ReadOnlyViolation", "", <<>>)
                 /\ Untouched
           /\ ( /\ Calls(1, "Query", k)
                /\ \E sql \in Statements, params \in ParamSets, kind \in MappingKinds,
                      missing \in MissingTable :
                        QueryCall(1, k, sql, params, kind, missing) )
              => /\ pc'[1] = "idle"
                 /\ ret'[1] = Result("Query", k, "ParametersNotSupported", "", <<>>)
                 /\ Untouched]_vars

C9_Witness ==
    /\ ret[1].op = "Query" /\ ret[1].status = "ParametersNotSupported"
    /\ ret[1].key \in DOMAIN connections
    /\ connections[ret[1].key].is_access97

\* the row-records of a column-oriented table: as many as the first column has
\* values, row i mapping every column to its i-th value, or to null when the
\* column has none
C10_Transpose(table) ==
    IF table = <<>> THEN <<>>
    ELSE [i \in 1 .. Len(table[1].vals) |->
            Row([c \in {table[j].name : j \in DOMAIN table} |->
                   LET j == CHOOSE j \in DOMAIN table : table[j].name = c
                   IN  IF i <= Len(table[j].vals) THEN table[j].vals[i] ELSE Null])]

C11_Chain == <<"modern", "legacy", "parser">>

\* C11: for a .mdb path Connect attempts the modern driver, then the legacy
\* driver, then the parser: a failed modern-driver attempt, whatever its error,
\* neither ends the call nor goes straight to the parser, and a Connect that
\* fails in the chain has attempted all three methods in that order.
C11_FallbackChain ==
    [][(local[1].path = PathMdb /\ pc[1] \in {"c_open", "c_parser"})
       => /\ (pc[1] = "c_open" /\ pc'[1] # "c_store")
             => pc'[1] \notin {"idle", "c_parser"}
          /\ Ends(1) => ret'[1].tried = C11_Chain]_vars

\* C12: a Connect on a .mdb path whose every attempt failed fails
\* ConnectionFailed, its message carries the failure reason of each attempt it
\* made, and the registry is left as it was.
C12_AllReasons ==
    [][(local[1].path = PathMdb /\ pc[1] \in {"c_open", "c_parser"} /\ Ends(1))
       => /\ ret'[1].status = "ConnectionFailed"
          /\ ret'[1].reasons = Range(ret'[1].tried)
          /\ connections' = connections]_vars

\* C13: for an .accdb path a failed modern-driver attempt ends the call: the
\* parser is never attempted, and no handle on an .accdb path is a parser handle.
C13_AccdbTerminal ==
    [][/\ (local[1].path = PathAccdb /\ pc[1] = "c_open" /\ pc'[1] # "c_store")
          => /\ pc'[1] = "idle"
             /\ "parser" \notin Range(ret'[1].tried)
       /\ \A k \in DOMAIN connections' :
            connections'[k].path = PathAccdb => ~connections'[k].is_access97]_vars

\* C14: a driver attempt of Connect that fails leaves behind no opened engine:
\* whatever the attempt opened is released by the time the attempt is over, so
\* every engine that is live after the failed attempt was live before it.
C14_NoLeak ==
    [][(pc[1] = "c_open" /\ pc'[1] # "c_store")
       => \A e \in EngineIds :
            engines'[e].state = "live" => engines[e].state = "live"]_vars

\* C15: a Connect with readNotes set whose backend was established returns its
\* confirmation with the notes or the note-read error appended, however the
\* notes read ended, and the handle is stored under the key.
C15_NotesNeverFail ==
    [][(pc[1] = "c_store" /\ local[1].readNotes /\ Ends(1))
       => /\ ret'[1].status = "ok"
          /\ ret'[1].detail \in {"Notes", "Error reading notes"}
          /\ local[1].key \in DOMAIN connections']_vars

\* C16: a Connect that ends in a failure of any kind leaves the registry exactly
\* as it was before the call.
C16_FailedConnectStoresNothing ==
    [][(Ends(1) /\ ret'[1].op = "Connect" /\ ret'[1].status # "ok")
       => connections' = connections]_vars

\* a Connect on an unused key that failed in the handle construction, after its
\* backend had opened, beside another key's handle
C16_Witness ==
    /\ ret[1].op = "Connect" /\ ret[1].status = "ConnectionFailed"
    /\ ret[1].detail = "TypeError"
    /\ ret[1].key \notin DOMAIN connections
    /\ DOMAIN connections # {}

\* this step belongs to a call of Query, Update or ListConnections by caller t
C17_ReadingStep(t) ==
    \/ pc[t] \in {"q_exec", "u_exec"}
    \/ /\ pc[t] = "idle"
       /\ \/ pc'[t] \in {"q_exec", "u_exec"}
          \/ Ends(t) /\ ret'[t].op \in {"Query", "Update", "ListConnections"}

\* C17: no step of a Query, an Update or a ListConnections, successful or not,
\* changes the registry; and through any step a key that stays in the registry
\* keeps its path and its backend kind.
C17_RegistryFrame ==
    [][/\ C17_ReadingStep(1) => connections' = connections
       /\ \A k \in DOMAIN connections \cap DOMAIN connections' :
            /\ connections'[k].path = connections[k].path
            /\ connections'[k].is_access97 = connections[k].is_access97]_vars

\* a failed Query on a key of a registry with two handles
C17_Witness ==
    /\ ret[1].op = "Query" /\ ret[1].status = "QueryError"
    /\ ret[1].key \in DOMAIN connections
    /\ DOMAIN connections = Keys

\* the ids of a parameter-set sequence, in order
C18_Ids(params) == [i \in DOMAIN params |-> params[i]["id"]]

\* the row-records of T's rows, in order
C18_Records(rows) == [i \in DOMAIN rows |-> RecordOf("id", rows[i])]

====
